---- MODULE Spec2Model ----
(***************************************************************************)
(* Model of the mongoose-patch-history plugin (src/lib/index.js, built     *)
(* from src/unnamed/part_000).  The plugin hooks the lifecycle of a host   *)
(* schema: on save, update and removal it diffs the document's snapshot    *)
(* against a baseline and stores the diff in a companion patch collection. *)
(*                                                                         *)
(* The host collection, the in-memory document instances, the in-flight    *)
(* queries and the patch collection are the state.  Every hook is an       *)
(* action; the store's own write (which mongoose performs between the pre  *)
(* and the post hooks) is an action of the environment.  Where the built   *)
(* file and its ES2015 source behave differently (the self-referencing     *)
(* declaration in mergeQueryConditionsWithUpdate) the built file, which is *)
(* what a host application loads, is the one modelled.                     *)
(***************************************************************************)
EXTENDS Integers, Sequences, FiniteSets, TLC

\* ------------------------------------------------------------------ bounds

\* Records the patch collection may hold; an operation starts only when
\* the records it can add still fit.
MaxPatches == 2

\* ------------------------------------------------------------ value domains

\* JavaScript's undefined: an unset path of a document, a missing option.
Undefined == "undefined"

\* {} : the object without keys.
EmptyObj == [k \in {} |-> Undefined]

\* ObjectIds handed out by the store, in creation order.
IdName == <<"id1", "id2">>

\* The host schema used throughout (README: `title` without a default and a
\* second path whose default is filled in for every new document).
AppFields == {"title", "active"}
FieldValues == [title |-> {"A", "B"}, active |-> {"no", "yes"}]
SchemaDefaults == [k \in {"active"} |-> "no"]

\* Values of the timestamp paths when the host schema sets `timestamps`:
\* "t0" when the collection was filled, Now at every later write.
Now == "t1"

\* Enumeration order of an object's keys (insertion order of the schema).
KeyOrder == <<"_id", "title", "active", "_user", "createdAt", "updatedAt", "__v">>

\* In-memory document instances and in-flight queries of the caller.
Insts == {"i1"}
Queries == {"q1"}

\* ------------------------------------------------------------------- state

VARIABLES
  schema,    \* what the host schema carries: methods, statics, virtuals, hooks
  setup,     \* the call plugin(schema, opts): its opts and how it ended
  options,   \* the merged plugin options and the host schema's `timestamps`
  store,     \* host collection: _id -> stored document
  patches,   \* patch collection, in creation order
  nextId,    \* index into IdName of the next ObjectId
  inst,      \* in-memory document instances
  query      \* in-flight queries

vars == <<schema, setup, options, store, patches, nextId, inst, query>>

\* ---------------------------------------------------------------- objects

Restrict(o, keys) == [k \in (DOMAIN o) \cap keys |-> o[k]]

Without(o, keys) == [k \in (DOMAIN o) \ keys |-> o[k]]

\* Object.assign({}, a, b): b's keys override a's.
Assign(a, b) ==
  [k \in (DOMAIN a) \cup (DOMAIN b) |-> IF k \in DOMAIN b THEN b[k] ELSE a[k]]

Put(o, k, v) == Assign(o, [x \in {k} |-> v])

KeysOf(o) == SelectSeq(KeyOrder, LAMBDA k : k \in DOMAIN o)

Reverse(s) == [i \in 1..Len(s) |-> s[Len(s) + 1 - i]]

\* toJSON = JSON.parse(JSON.stringify(obj)): keys holding undefined are
\* dropped, everything else in this value domain serialises to itself.
toJSON(obj) == [k \in {x \in DOMAIN obj : obj[x] # Undefined} |-> obj[k]]

\* schema.methods.data: toObject without the version key, the _id and, when
\* the schema sets `timestamps`, the two timestamp paths.  toObject only
\* emits schema paths, so ad hoc properties (`_user`) are not part of it.
dataKeepingTimestamps(doc) == Without(doc, {"_id", "__v", "_user"})

data(doc) ==
  Without(doc, {"_id", "__v", "_user"}
               \cup (IF options.timestamps THEN {"createdAt", "updatedAt"} ELSE {}))

\* jsonpatch.compare(mirror, obj) on flat objects: walking the old keys in
\* reverse, a replace for every changed and a remove for every missing key;
\* then an add for every new key, in key order.
CompareNewAsReplace(mirror, obj, k) ==
  IF k \notin DOMAIN mirror
    THEN << [op |-> "replace", path |-> "/" \o k, value |-> obj[k]] >>
    ELSE << >>

CompareOld(mirror, obj, k) ==
  IF k \in DOMAIN obj
    THEN IF mirror[k] # obj[k]
           THEN << [op |-> "replace", path |-> "/" \o k, value |-> obj[k]] >>
           ELSE << >>
    ELSE << [op |-> "remove", path |-> "/" \o k] >>

CompareNew(mirror, obj, k) ==
  IF k \notin DOMAIN mirror
    THEN << [op |-> "add", path |-> "/" \o k, value |-> obj[k]] >>
    ELSE << >>

RECURSIVE CompareOldKeys(_, _, _)
CompareOldKeys(mirror, obj, keys) ==
  IF keys = << >> THEN << >>
  ELSE CompareOld(mirror, obj, Head(keys)) \o CompareOldKeys(mirror, obj, Tail(keys))

RECURSIVE CompareNewKeys(_, _, _)
CompareNewKeys(mirror, obj, keys) ==
  IF keys = << >> THEN << >>
  ELSE CompareNew(mirror, obj, Head(keys)) \o CompareNewKeys(mirror, obj, Tail(keys))

compare(mirror, obj) ==
  CompareOldKeys(mirror, obj, Reverse(KeysOf(mirror)))
    \o CompareNewKeys(mirror, obj, KeysOf(obj))

\* ---------------------------------------------------------------- the plugin

\* lodash get(object, path) for the one-segment paths of flat snapshots;
\* tail(entry.path.split('/')).join('.') turns "/title" into "title".
DottedPath(path) == CHOOSE k \in {KeyOrder[i] : i \in 1..Len(KeyOrder)} : "/" \o k = path

get(object, path) == IF path \in DOMAIN object THEN object[path] ELSE Undefined

\* A value JavaScript's `||` skips.
Falsy(v) == v \in {Undefined, ""}

\* document[key] / queryOptions[key]
Prop(object, key) == IF key \in DOMAIN object THEN object[key] ELSE Undefined

\* The baseline createPatch diffs against:
\*   document.isNew ? {} : document._original || {}
Baseline(document) ==
  IF document.isNew THEN EmptyObj
  ELSE IF document.hasOriginal THEN document._original ELSE EmptyObj

\* toJSON(document.data()): what the hooks keep and compare.
Snapshot(doc) == toJSON(data(doc))

\* The snapshot function of post('init') and post('save'):
\*   this._original = toJSON(this.data())
snapshotNotTaken(this) == this

snapshot(this) ==
  [this EXCEPT !.hasOriginal = TRUE, !._original = Snapshot(this.doc)]

\* The ops createPatch computes, with the original values when tracked.
TrackOriginalFromDocument(document, entry) ==
  [k \in (DOMAIN entry) \cup {"originalValue"} |->
     IF k = "originalValue"
       THEN get(document.doc, DottedPath(entry.path))
       ELSE entry[k]]

TrackOriginal(document, entry) ==
  [k \in (DOMAIN entry) \cup {"originalValue"} |->
     IF k = "originalValue"
       THEN get(IF document.isNew THEN EmptyObj
                ELSE IF document.hasOriginal THEN document._original ELSE EmptyObj,
                DottedPath(entry.path))
       ELSE entry[k]]

PatchOps(document) ==
  LET ops == compare(Baseline(document), Snapshot(document.doc))
  IN  IF options.trackOriginalValue
        THEN [i \in 1..Len(ops) |-> TrackOriginal(document, ops[i])]
        ELSE ops

\* data[name] = document[type.from || name] || queryOptions[type.from || name]
\* options.includes maps every included name to its type's `from`
\* (undefined when the type has none).
IncludedSource(name) ==
  IF Falsy(options.includes[name]) THEN name ELSE options.includes[name]

Included(document, queryOptions) ==
  [name \in DOMAIN options.includes |->
     LET src == IncludedSource(name)
     IN  IF Falsy(Prop(document.doc, src))
           THEN Prop(queryOptions, src)
           ELSE Prop(document.doc, src)]

\* createPatch(document, queryOptions): whether document.patches.create is
\* called, and with which data.  Nothing is created for an empty diff.
createPatchAlways(document, queryOptions) ==
  [create |-> TRUE,
   data   |-> [ops |-> PatchOps(document),
               ref |-> document.doc["_id"],
               inc |-> Included(document, queryOptions)]]

createPatch(document, queryOptions) ==
  LET ops == PatchOps(document)
  IN  [create |-> Len(ops) # 0,
       data   |-> [ops |-> ops,
                   ref |-> document.doc["_id"],
                   inc |-> Included(document, queryOptions)]]

\* What one createPatch call read and did, kept with the operation that made
\* the call: the document it was handed and whether a record was stored.
Call(document, persisted) ==
  [doc       |-> document.doc,
   isNew     |-> document.isNew,
   baseline  |-> IF document.hasOriginal THEN document._original ELSE EmptyObj,
   persisted |-> persisted]

\* deletePatches(document): every record whose ref is the document's _id is
\* removed from the patch collection.
deleteNoPatches(ref) == patches

deleteAllPatches(ref) == << >>

deletePatches(ref) == SelectSeq(patches, LAMBDA p : p.ref # ref)

RECURSIVE DropAt(_, _)
\* A sequence without the elements at the positions in S.
DropAt(seq, S) ==
  IF seq = << >> THEN << >>
  ELSE DropAt(SubSeq(seq, 1, Len(seq) - 1), S)
         \o (IF Len(seq) \in S THEN << >> ELSE << seq[Len(seq)] >>)

\* What a rejected deletePatches(document) can leave: nothing is removed when
\* the find is rejected; when a patch.remove() is rejected, the other
\* removes of the Promise.all may have succeeded.
PartlyDeleted(ref) ==
  LET refs == {n \in 1..Len(patches) : patches[n].ref = ref}
  IN  {DropAt(patches, S) : S \in {T \in SUBSET refs : T = {} \/ T # refs}}

\* ------------------------------------------------------- document instances

\* A document instance: the document, its state when it was initialised or
\* last saved (mongoose derives the modified paths from it), isNew and the
\* plugin's _original.  For inspection while an operation runs and until it
\* returns: its createPatch calls, the patch collection it started from and
\* how it ended.
NoInst ==
  [pc |-> "none", doc |-> EmptyObj, clean |-> EmptyObj, isNew |-> FALSE,
   hasOriginal |-> FALSE, _original |-> EmptyObj, removed |-> FALSE,
   calls |-> << >>, patches0 |-> << >>, outcome |-> "-"]

\* A query: the operation, this._conditions, this._update, this.options and
\* what the pre hooks attach to it.  For inspection: the store's result, the
\* documents it wrote (`target`), the store and the patch collection it
\* started from, whether the post hook queried again and the filter it used
\* when that was merged from conditions and update, the createPatch calls, the number of times the
\* post hook called next, and how the operation ended.
NoQuery ==
  [pc |-> "idle", op |-> "-", _conditions |-> EmptyObj, _update |-> EmptyObj,
   options |-> EmptyObj, upsert |-> FALSE, multi |-> FALSE,
   hasOriginalId |-> FALSE, _originalId |-> Undefined,
   hasOriginal |-> FALSE, _original |-> EmptyObj,
   _originalIds |-> << >>, _originals |-> << >>,
   result |-> [hasN |-> FALSE, nModified |-> 0, upserted |-> FALSE],
   target |-> {}, before |-> EmptyObj, patches0 |-> << >>,
   requeried |-> FALSE, merged |-> FALSE, conditions |-> EmptyObj,
   calls |-> << >>, nextCalls |-> 0, outcome |-> "-"]

\* No operation is between its first and its last step.
Quiet ==
  /\ \A i \in Insts : inst[i].pc \in {"none", "idle"}
  /\ \A q \in Queries : query[q].pc = "idle"

\* The caller holds no document instance: it runs its queries between its
\* uses of document instances, not during them.
NoneHeld == \A i \in Insts : inst[i].pc = "none"

\* new Model(fields): the schema's defaults are filled in, the _id is fresh.
NewDocument(id, fields) ==
  Assign(Assign([k \in {"_id", "__v"} |-> IF k = "_id" THEN id ELSE "0"],
                options.defaults),
         fields)

\* The objects a caller may build from the schema's paths.
FieldObjects(keys) ==
  UNION {[ks -> UNION {FieldValues[k] : k \in ks}] : ks \in SUBSET keys}

WellTyped(o) == \A k \in DOMAIN o : o[k] \in FieldValues[k]

Fieldsets == {o \in FieldObjects(AppFields) : WellTyped(o)}

\* new Model(fields)
New(i, fields) ==
  /\ Quiet
  /\ nextId <= Len(IdName)
  /\ inst' = [inst EXCEPT ![i] =
       [NoInst EXCEPT !.pc = "idle", !.isNew = TRUE,
                      !.doc = NewDocument(IdName[nextId], fields)]]
  /\ nextId' = nextId + 1
  /\ UNCHANGED <<schema, setup, options, store, patches, query>>

\* Model.findById(id): the document is initialised from the store and
\* post('init') takes its snapshot.
Load(i, id) ==
  /\ Quiet
  /\ id \in DOMAIN store
  /\ inst' = [inst EXCEPT ![i] =
       snapshot([NoInst EXCEPT !.pc = "idle", !.doc = store[id],
                               !.clean = store[id]])]
  /\ UNCHANGED <<schema, setup, options, store, patches, nextId, query>>

\* document.path = value (undefined unsets the path)
Set(i, k, v) ==
  /\ Quiet
  /\ inst[i].pc = "idle"
  /\ Prop(inst[i].doc, k) # v
  /\ inst' = [inst EXCEPT ![i].doc = Put(@, k, v)]
  /\ UNCHANGED <<schema, setup, options, store, patches, nextId, query>>

\* The timestamps mongoose sets on a write when the schema asks for them.
Stamp(doc, isNew, now) ==
  IF ~options.timestamps THEN doc
  ELSE IF isNew THEN Put(Put(doc, "createdAt", now), "updatedAt", now)
  ELSE Put(doc, "updatedAt", now)

\* Properties set on a document instance that are no schema paths (README:
\* the `user` virtual stores its value in this._user): they are neither
\* tracked as modified nor written to the store.
AdHocKeys == {"_user"}

\* The paths mongoose sends to the store: those changed since the document
\* was initialised or last saved.
Modified(d) ==
  {k \in ((DOMAIN d.doc) \cup (DOMAIN d.clean)) \ AdHocKeys :
     Prop(d.doc, k) # Prop(d.clean, k)}

\* mongoose's own pre('save') hook, registered with the schema and so run
\* before the plugin's: a new or modified document gets its timestamps.
Stamped(d) ==
  IF d.isNew \/ Modified(d) # {}
    THEN [d EXCEPT !.doc = Stamp(d.doc, d.isNew, Now)]
    ELSE d

\* pre('save'): createPatch(this).then(() => next()).catch(next)
\* `fail`: the patch collection rejects the create.
PreSave(i, fail) ==
  LET this == Stamped(inst[i])
      cp   == createPatch(this, EmptyObj)
  IN  /\ Quiet
      /\ inst[i].pc = "idle"
      /\ Len(patches) < MaxPatches
      /\ fail => cp.create
      /\ patches' = IF cp.create /\ ~fail THEN Append(patches, cp.data) ELSE patches
      /\ inst' = [inst EXCEPT ![i] =
           [this EXCEPT !.pc = IF fail THEN "done" ELSE "save",
                        !.outcome = IF fail THEN "error" ELSE "-",
                        !.patches0 = patches,
                        !.calls = << Call(this, cp.create /\ ~fail) >>]]
      /\ UNCHANGED <<schema, setup, options, store, nextId, query>>

\* The document the store holds after the write of a save: a new document
\* whole, an existing one with its modified paths overwritten.
Written(d) ==
  toJSON(IF d.isNew THEN Without(d.doc, AdHocKeys)
         ELSE Assign(store[d.doc["_id"]], Restrict(d.doc, Modified(d))))

\* The store's write of a save, followed on success by post('save'): the
\* snapshot is taken again.  A save that changes nothing writes nothing; a
\* changed document that is no longer in the store fails the save.
\* `fail`: the store rejects the write.
SaveWrite(i, fail) ==
  LET d      == inst[i]
      id     == d.doc["_id"]
      noop   == ~d.isNew /\ Modified(d) = {}
      gone   == ~d.isNew /\ ~noop /\ id \notin DOMAIN store
      failed == fail \/ gone
      w      == IF noop THEN toJSON(d.doc) ELSE Written(d)
      kept   == Assign(w, Restrict(d.doc, AdHocKeys))
  IN  /\ d.pc = "save"
      /\ fail => ~noop
      /\ store' = IF failed \/ noop THEN store
                  ELSE [x \in (DOMAIN store) \cup {id} |-> IF x = id THEN w ELSE store[x]]
      /\ inst' = [inst EXCEPT ![i] =
           IF failed
             THEN [d EXCEPT !.pc = "done", !.outcome = "error"]
             ELSE snapshot([d EXCEPT !.pc = "done", !.outcome = "ok",
                                     !.isNew = FALSE, !.doc = kept,
                                     !.clean = kept])]
      /\ UNCHANGED <<schema, setup, options, patches, nextId, query>>

\* pre('remove'): without removePatches next() at once, else deletePatches(this).
\* `fail`: the patch collection rejects the find or a remove.
PreRemove(i, fail) ==
  /\ Quiet
  /\ inst[i].pc = "idle"
  /\ ~inst[i].isNew
  /\ Modified(inst[i]) = {}
  /\ fail => options.removePatches
  /\ patches' \in IF fail THEN PartlyDeleted(inst[i].doc["_id"])
                 ELSE IF options.removePatches
                   THEN {deletePatches(inst[i].doc["_id"])}
                 ELSE {patches}
  /\ inst' = [inst EXCEPT
       ![i].pc = IF fail THEN "done" ELSE "remove",
       ![i].outcome = IF fail THEN "error" ELSE "-",
       ![i].patches0 = patches,
       ![i].calls = << >>]
  /\ UNCHANGED <<schema, setup, options, store, nextId, query>>

\* The store's removal of the document of an instance.
RemoveWrite(i) ==
  LET id == inst[i].doc["_id"]
  IN  /\ inst[i].pc = "remove"
      /\ store' = [x \in (DOMAIN store) \ {id} |-> store[x]]
      /\ inst' = [inst EXCEPT ![i].pc = "done", ![i].outcome = "ok",
                              ![i].removed = TRUE]
      /\ UNCHANGED <<schema, setup, options, patches, nextId, query>>

\* ------------------------------------------------------------------ queries

\* Keys for which key.includes('$') holds.
OperatorKeys == {"$set", "$unset"}

\* { [operator]: payload }
Operator(name, payload) == [k \in {name} |-> payload]

\* A document matches a filter of equality conditions.
Matches(doc, cond) == \A k \in DOMAIN cond : Prop(doc, k) = cond[k]

\* Model.find(cond): the matching documents in the store's order.
Find(cond) ==
  SelectSeq(IdName, LAMBDA id : id \in DOMAIN store /\ Matches(store[id], cond))

\* Model.find({ _id: { $in: ids } })
FindIn(ids) ==
  SelectSeq(IdName, LAMBDA id : id \in DOMAIN store
                                /\ \E n \in 1..Len(ids) : ids[n] = id)

\* mergeQueryConditionsWithUpdate(_conditions, _update).  In
\*   var conditions = Object.assign({}, conditions, update)
\* the second argument is the variable being declared, still undefined, so
\* only the update's keys are copied.
mergeQueryConditionsWithUpdate(_conditions, _update) ==
  LET update == IF "$set" \in DOMAIN _update THEN _update["$set"] ELSE _update
      conditions == Assign(EmptyObj, update)
  IN  Without(conditions, OperatorKeys)

\* The paths an update sets (top-level keys count as $set) and unsets.
Sets(upd) ==
  Assign(Without(upd, OperatorKeys),
         IF "$set" \in DOMAIN upd THEN upd["$set"] ELSE EmptyObj)

Unsets(upd) == IF "$unset" \in DOMAIN upd THEN DOMAIN upd["$unset"] ELSE {}

\* The store applies an update to a document it holds.
ApplyUpdate(doc, upd) ==
  Stamp(Without(Assign(doc, Sets(upd)), Unsets(upd)), FALSE, Now)

\* The document an upsert inserts: the filter's equality conditions and the
\* update's $set, with the schema's defaults.
Upserted(cond, upd) ==
  Stamp(Without(NewDocument(IdName[nextId],
                             Assign(Without(cond, {"_id"}), Sets(upd))),
                Unsets(upd)),
        TRUE, Now)

\* The order the store considers the matches in: the collection's order, or
\* descending _id under the option sort: '-_id'.
Sorted(found, sort) == IF sort = "-_id" THEN Reverse(found) ELSE found

\* The documents the store writes for an update: all matches, or the first
\* in the order of the operation's `sort` option.
Targets(cond, many, sort) ==
  LET found == Sorted(Find(cond), sort)
  IN  IF many \/ found = << >> THEN {found[n] : n \in 1..Len(found)}
      ELSE {found[1]}

\* The query as the hooks see it when the operation starts.
StartQuery(op, cond, upd, opts) ==
  [NoQuery EXCEPT !.op = op, !._conditions = cond, !._update = upd,
                  !.options = opts.options, !.upsert = opts.upsert,
                  !.multi = opts.multi, !.before = store, !.patches0 = patches]

\* preUpdateOne: the first match's _id and snapshot, or the snapshot of
\* new this.model({}) when nothing matches.
preUpdateOne(this) ==
  LET found == Find(this._conditions)
      original == IF found # << >> THEN store[found[1]]
                  ELSE NewDocument(IdName[Len(IdName)], EmptyObj)
  IN  [this EXCEPT !.pc = "exec",
                   !.hasOriginalId = found # << >>,
                   !._originalId = IF found # << >> THEN found[1] ELSE Undefined,
                   !.hasOriginal = TRUE,
                   !._original = Snapshot(original)]

\* preUpdateMany: the _ids and the snapshots of all matches, in parallel.
preUpdateMany(this) ==
  LET found == Find(this._conditions)
  IN  [this EXCEPT !.pc = "exec",
                   !._originalIds = found,
                   !._originals = [n \in 1..Len(found) |-> Snapshot(store[found[n]])]]

\* A hook's next(err) after a rejected read.
RejectedButContinues(this) == [this EXCEPT !.pc = "exec", !.outcome = "error"]

Rejected(this) == [this EXCEPT !.pc = "done", !.outcome = "error"]

IsMany(this) == this.op = "updateMany" \/ (this.op = "update" /\ this.multi)

\* pre('findOneAndUpdate'), pre('updateOne'), pre('updateMany') and
\* pre('update'), which picks by options.multi.
\* `fail`: the store rejects the hook's read.
PreUpdate(q, op, cond, upd, opts, fail) ==
  LET this == StartQuery(op, cond, upd, opts)
  IN  /\ Quiet /\ NoneHeld
      /\ opts.multi => op = "update"
      /\ "_id" \in DOMAIN cond => cond["_id"] \in DOMAIN store
      /\ opts.upsert => nextId <= Len(IdName)
      /\ Len(patches)
           + (IF IsMany(this)
                THEN Cardinality(DOMAIN store) + (IF opts.upsert THEN 1 ELSE 0)
                ELSE 1) <= MaxPatches
      /\ query' = [query EXCEPT ![q] =
           IF fail THEN Rejected(this)
           ELSE IF IsMany(this) THEN preUpdateMany(this)
           ELSE preUpdateOne(this)]
      /\ UNCHANGED <<schema, setup, options, store, patches, nextId, inst>>

\* The store performs the update and reports what it did.
ExecUpdate(q) ==
  LET this    == query[q]
      targets == Targets(this._conditions, IsMany(this),
                         IF this.op = "findOneAndUpdate"
                           THEN Prop(this.options, "sort") ELSE Undefined)
      insert  == targets = {} /\ this.upsert
      new     == Upserted(this._conditions, this._update)
      changed == {id \in targets :
                    ApplyUpdate(store[id], this._update) # store[id]}
  IN  /\ this.pc = "exec"
      /\ this.op # "findOneAndRemove"
      /\ store' =
           IF insert
             THEN [x \in (DOMAIN store) \cup {new["_id"]} |->
                     IF x = new["_id"] THEN new ELSE store[x]]
             ELSE [x \in DOMAIN store |->
                     IF x \in targets
                       THEN ApplyUpdate(store[x], this._update)
                       ELSE store[x]]
      /\ nextId' = IF insert THEN nextId + 1 ELSE nextId
      /\ query' = [query EXCEPT ![q] =
           [this EXCEPT !.pc = "post",
                        !.target = IF insert THEN {new["_id"]} ELSE changed,
                        !.result = [hasN |-> TRUE,
                                    nModified |-> Cardinality(changed),
                                    upserted |-> insert]]]
      /\ UNCHANGED <<schema, setup, options, patches, inst>>

\* A document as find/findOne hands it to a post hook, with the baseline the
\* hook attaches: doc._original = baseline (undefined when `has` is false).
Found(id, has, baseline) ==
  [doc |-> store[id], isNew |-> FALSE, hasOriginal |-> has, _original |-> baseline]

\* if (result.nModified === 0 && !result.upserted) return next()
ShortCircuits(result) == result.hasN /\ result.nModified = 0 /\ ~result.upserted

\* The hook is over: next() was called `n` times, the last time with `out`.
Finished(this, n, out, calls) ==
  [this EXCEPT !.pc = "done", !.nextCalls = n, !.outcome = out, !.calls = calls]

\* The same, after a re-query; its filter is kept when it was merged.
Requeried(this, byId, n, out, calls) ==
  [Finished(this, n, out, calls) EXCEPT
     !.requeried = TRUE,
     !.merged = ~byId,
     !.conditions = IF byId THEN EmptyObj
                    ELSE mergeQueryConditionsWithUpdate(this._conditions,
                                                        this._update)]

\* The filter postUpdateOne re-resolves the document with.
PostConditionsOne(this) ==
  IF this.hasOriginalId THEN [k \in {"_id"} |-> this._originalId]
  ELSE mergeQueryConditionsWithUpdate(this._conditions, this._update)

\* postUpdateOne(result, next).
\* `failFind`: the store rejects findOne; `failCreate`: the patch collection
\* rejects the create.
postUpdateOne(q, result, failFind, failCreate) ==
  LET this  == query[q]
      found == Find(PostConditionsOne(this))
      doc   == Found(found[1], TRUE, this._original)
      cp    == createPatch(doc, this.options)
  IN  IF ShortCircuits(result)
        THEN /\ ~failFind /\ ~failCreate
             /\ query' = [query EXCEPT ![q] = Finished(this, 1, "ok", << >>)]
             /\ UNCHANGED patches
      ELSE IF failFind
        THEN /\ ~failCreate
             /\ query' = [query EXCEPT ![q] =
                  Requeried(this, this.hasOriginalId, 1, "error", << >>)]
             /\ UNCHANGED patches
      ELSE IF found = << >>
        THEN \* if (!doc) return next(), and the next .then calls next() again
             /\ ~failCreate
             /\ query' = [query EXCEPT ![q] =
                  Requeried(this, this.hasOriginalId, 2, "ok", << >>)]
             /\ UNCHANGED patches
      ELSE /\ failCreate => cp.create
           /\ patches' = IF cp.create /\ ~failCreate
                           THEN Append(patches, cp.data) ELSE patches
           /\ query' = [query EXCEPT ![q] =
                Requeried(this, this.hasOriginalId, 1,
                          IF failCreate THEN "error" ELSE "ok",
                          << Call(doc, cp.create /\ ~failCreate) >>)]

\* The filter postUpdateMany re-resolves the documents with.
FindPostManyByFilter(this) == Find(this._conditions)

FindPostMany(this) ==
  IF Len(this._originalIds) = 0
    THEN Find(mergeQueryConditionsWithUpdate(this._conditions, this._update))
    ELSE FindIn(this._originalIds)

\* doc._original = this._originals[i]
ManyDocWithoutOriginal(this, found, n) == Found(found[n], FALSE, EmptyObj)

ManyDoc(this, found, n) ==
  Found(found[n], n <= Len(this._originals),
        IF n <= Len(this._originals) THEN this._originals[n] ELSE EmptyObj)

RECURSIVE CreateAll(_, _, _, _)
\* The records Promise.all(docs.map(createPatch)) stores, in the documents'
\* order; the create of document `failAt` (0: none) is rejected.
CreateAll(this, found, n, failAt) ==
  IF n > Len(found) THEN << >>
  ELSE LET cp == createPatch(ManyDoc(this, found, n), this.options)
       IN  (IF cp.create /\ n # failAt THEN << cp.data >> ELSE << >>)
             \o CreateAll(this, found, n + 1, failAt)

\* postUpdateMany(result, next).
postUpdateMany(q, result, failFind, failAt) ==
  LET this  == query[q]
      found == FindPostMany(this)
      calls == [n \in 1..Len(found) |->
                  Call(ManyDoc(this, found, n),
                       createPatch(ManyDoc(this, found, n), this.options).create
                         /\ n # failAt)]
  IN  IF ShortCircuits(result)
        THEN /\ ~failFind /\ failAt = 0
             /\ query' = [query EXCEPT ![q] = Finished(this, 1, "ok", << >>)]
             /\ UNCHANGED patches
      ELSE IF failFind
        THEN /\ failAt = 0
             /\ query' = [query EXCEPT ![q] =
                  Requeried(this, Len(this._originalIds) # 0, 1, "error", << >>)]
             /\ UNCHANGED patches
      ELSE /\ failAt \in 0..Len(found)
           /\ failAt # 0 =>
                createPatch(ManyDoc(this, found, failAt), this.options).create
           /\ patches' = patches \o CreateAll(this, found, 1, failAt)
           /\ query' = [query EXCEPT ![q] =
                Requeried(this, Len(this._originalIds) # 0, 1,
                          IF failAt # 0 THEN "error" ELSE "ok", calls)]

\* post('updateOne'), post('updateMany'), post('update'), which picks by
\* options.multi, and post('findOneAndUpdate'), which hands postUpdateOne an
\* empty result.
PostUpdate(q, failFind, failAt) ==
  LET this == query[q]
  IN  /\ this.pc = "post"
      /\ this.op # "findOneAndRemove"
      /\ IF this.op = "findOneAndUpdate"
           THEN postUpdateOne(q, [hasN |-> FALSE, nModified |-> 0, upserted |-> FALSE],
                              failFind, failAt # 0)
         ELSE IF IsMany(this)
           THEN postUpdateMany(q, this.result, failFind, failAt)
         ELSE postUpdateOne(q, this.result, failFind, failAt # 0)
      /\ this.op = "findOneAndUpdate" \/ ~IsMany(this) => failAt \in {0, 1}
      /\ UNCHANGED <<schema, setup, options, store, nextId, inst>>

\* pre('findOneAndRemove'): without removePatches next() at once; else the
\* first match is read and handed to deletePatches, which throws on null.
\* `fail`: the store rejects the read or the patch collection a remove.
PreFindOneAndRemove(q, cond, fail) ==
  LET this  == StartQuery("findOneAndRemove", cond, EmptyObj,
                          [options |-> EmptyObj, upsert |-> FALSE, multi |-> FALSE])
      found == Find(cond)
      throws == options.removePatches /\ (fail \/ found = << >>)
  IN  /\ Quiet /\ NoneHeld
      /\ "_id" \in DOMAIN cond => cond["_id"] \in DOMAIN store
      /\ fail => options.removePatches
      /\ patches' \in IF fail /\ found # << >> THEN PartlyDeleted(found[1])
                     ELSE IF options.removePatches /\ ~throws
                       THEN {deletePatches(found[1])}
                     ELSE {patches}
      /\ query' = [query EXCEPT ![q] =
           IF throws THEN Rejected(this)
           ELSE [this EXCEPT !.pc = "exec"]]
      /\ UNCHANGED <<schema, setup, options, store, nextId, inst>>

\* The store removes the first match and the operation returns.
ExecFindOneAndRemove(q) ==
  LET this  == query[q]
      found == Find(this._conditions)
      gone  == IF found = << >> THEN {} ELSE {found[1]}
  IN  /\ this.pc = "exec"
      /\ this.op = "findOneAndRemove"
      /\ store' = [x \in (DOMAIN store) \ gone |-> store[x]]
      /\ query' = [query EXCEPT ![q] =
           [this EXCEPT !.pc = "done", !.outcome = "ok", !.target = gone]]
      /\ UNCHANGED <<schema, setup, options, patches, nextId, inst>>

\* The operation has returned to its caller, who goes on unless it got an
\* error; what the operation left for inspection is dropped.  A removed
\* document's instance is dropped with it.
ReturnInst(i) ==
  /\ inst[i].pc = "done"
  /\ inst[i].outcome # "error"
  /\ inst' = [inst EXCEPT ![i] =
       IF inst[i].removed THEN NoInst
       ELSE [inst[i] EXCEPT !.pc = "idle", !.calls = << >>,
                            !.patches0 = << >>, !.outcome = "-"]]
  /\ UNCHANGED <<schema, setup, options, store, patches, nextId, query>>

\* The caller lets go of a document instance.
Release(i) ==
  /\ inst[i].pc = "idle"
  /\ inst' = [inst EXCEPT ![i] = NoInst]
  /\ UNCHANGED <<schema, setup, options, store, patches, nextId, query>>

\* The query has returned to its caller.
ReturnQuery(q) ==
  /\ query[q].pc = "done"
  /\ query[q].outcome # "error"
  /\ query' = [query EXCEPT ![q] = NoQuery]
  /\ UNCHANGED <<schema, setup, options, store, patches, nextId, inst>>

\* Another client of the same collection inserts or removes a document
\* while a query of this client is between two of its steps: after the pre
\* hook's read and before the store's write, or after the write and before
\* the post hook's read.
Between == \E q \in Queries : query[q].pc \in {"exec", "post"}

OtherInsert(fields) ==
  /\ Between
  /\ nextId + (IF \E q \in Queries : query[q].pc = "exec" /\ query[q].upsert
                 THEN 1 ELSE 0) <= Len(IdName)
  /\ store' = [x \in (DOMAIN store) \cup {IdName[nextId]} |->
                 IF x = IdName[nextId]
                   THEN Stamp(NewDocument(x, fields), TRUE, Now)
                   ELSE store[x]]
  /\ nextId' = nextId + 1
  /\ UNCHANGED <<schema, setup, options, patches, inst, query>>

OtherRemove(id) ==
  /\ Between
  /\ id \in DOMAIN store
  /\ store' = [x \in (DOMAIN store) \ {id} |-> store[x]]
  /\ UNCHANGED <<schema, setup, options, patches, nextId, inst, query>>

\* The documents an update works on: those its pre hook read and those the
\* store wrote for it.
Own(this) ==
  this.target
    \cup (IF this.hasOriginalId THEN {this._originalId} ELSE {})
    \cup {this._originalIds[n] : n \in 1..Len(this._originalIds)}

\* Another operation updates a document of its own while an update of this
\* client waits for its post hook: the operations are on different documents.
OtherUpdate(id, upd) ==
  /\ \E q \in Queries : query[q].pc = "post"
  /\ id \in DOMAIN store
  /\ \A q \in Queries : id \notin Own(query[q])
  /\ ApplyUpdate(store[id], upd) # store[id]
  /\ store' = [store EXCEPT ![id] = ApplyUpdate(store[id], upd)]
  /\ UNCHANGED <<schema, setup, options, patches, nextId, inst, query>>

\* ------------------------------------------------------ the caller's inputs

One(k, v) == [x \in {k} |-> v]

Conditions == {EmptyObj, One("title", "A")}

Updates ==
  {Operator("$set", One("title", "B")), Operator("$set", One("active", "yes")),
   One("title", "B"), Operator("$unset", One("title", ""))}

QueryOptions ==
  [options : {EmptyObj}, upsert : BOOLEAN, multi : BOOLEAN]

UpdateOps == {"updateOne", "findOneAndUpdate", "updateMany", "update"}

\* The filters and updates the caller combines; the legacy update() is
\* called with one filter and one update only.
Called(op, cond, upd) ==
  /\ cond = EmptyObj => "$set" \in DOMAIN upd
  /\ op = "update" =>
       /\ cond = One("title", "A")
       /\ upd = Operator("$set", One("title", "B"))

NewFields == {o \in Fieldsets : DOMAIN o \subseteq {"title"}}

\* The titles of the documents the collection holds when the plugin is
\* attached, by _id.
InitialTitles ==
  {EmptyObj, One("id1", "A"), One("id1", "B"),
   [id \in {"id1", "id2"} |-> IF id = "id1" THEN "A" ELSE "B"]}

\* ------------------------------------------------------------------ setup

\* The hooks the plugin registers on the host schema.
Hooks ==
  {"post init", "post save", "pre remove", "pre save", "pre findOneAndRemove",
   "pre findOneAndUpdate", "post findOneAndUpdate", "pre updateOne",
   "post updateOne", "pre updateMany", "post updateMany", "pre update",
   "post update"}

\* `new options.schema(def)` and `options.mongoose.model(...)`: a TypeError
\* when `options.schema` is not a constructor.
createPatchModel(opts) == IF opts.schema THEN "Patches" ELSE "TypeError"

\* plugin(schema, opts), statement by statement: the schema it leaves behind
\* and the error it throws, if any.
plugin(s, opts) ==
  LET withData == [s EXCEPT !.methods = @ \cup {"data"}] IN
  IF s.tree = "none"
    THEN [schema |-> s, error |-> "TypeError"]
  ELSE IF ~opts.mongoose \/ Falsy(opts.name) \/ "data" \in s.methods
            \/ s.tree # "typed"
    THEN [schema |-> s, error |-> "AssertionError"]
  ELSE IF createPatchModel(opts) = "TypeError"
    THEN [schema |-> withData, error |-> "TypeError"]
  ELSE [schema |-> [withData EXCEPT !.statics = @ \cup {"Patches"},
                                    !.virtuals = @ \cup {"patches"},
                                    !.hooks = @ \cup Hooks],
        error |-> Undefined]

\* A host schema before the plugin is applied: its own instance methods, and
\* whether its tree has an `_id` and that `_id` a type.
HostSchemas ==
  [methods : SUBSET {"data", "publish"}, statics : {{}}, virtuals : {{}},
   hooks : {{}}, tree : {"none", "untyped", "typed"}]

\* The options a caller may pass.
Opts ==
  [mongoose : BOOLEAN, name : {Undefined, "", "postPatches"}, schema : BOOLEAN]

\* The host schema of the specifications that start after a successful setup.
Plugged ==
  [pc |-> "done", opts |-> [mongoose |-> TRUE, name |-> "postPatches",
                            schema |-> TRUE],
   before |-> [methods |-> {}, statics |-> {}, virtuals |-> {}, hooks |-> {},
               tree |-> "typed"],
   error |-> Undefined]

Plugin ==
  /\ setup.pc = "call"
  /\ LET r == plugin(schema, setup.opts) IN
       /\ schema' = r.schema
       /\ setup' = [setup EXCEPT !.pc = "done", !.error = r.error]
  /\ UNCHANGED <<options, store, patches, nextId, inst, query>>

\* --------------------------------------------------------- the specification

\* The plugin options after merge({}, defaultOptions, opts), with the host
\* schema's `timestamps` option and defaults.
Options ==
  {[removePatches |-> ~ts, trackOriginalValue |-> FALSE, includes |-> EmptyObj,
    timestamps |-> ts, defaults |-> IF ts THEN EmptyObj ELSE SchemaDefaults] :
     ts \in BOOLEAN}

Init ==
  /\ setup = Plugged
  /\ schema = plugin(Plugged.before, Plugged.opts).schema
  /\ options \in Options
  /\ \E t \in InitialTitles :
       /\ nextId = Cardinality(DOMAIN t) + 1
       /\ store = [id \in DOMAIN t |->
                     Stamp(NewDocument(id, One("title", t[id])), TRUE, "t0")]
  /\ patches = << >>
  /\ inst = [i \in Insts |-> NoInst]
  /\ query = [q \in Queries |-> NoQuery]

\* The steps of the save and remove pathways of a document instance, and of
\* the update and remove pathways of a query, in which no store or
\* patch-collection call is rejected.
DocumentSteps ==
  \/ \E i \in Insts, fields \in NewFields : New(i, fields)
  \/ \E i \in Insts, id \in DOMAIN store : Load(i, id)
  \/ \E i \in Insts, v \in FieldValues["title"] \cup {Undefined} :
       Set(i, "title", v)
  \/ \E i \in Insts : options.timestamps /\ Set(i, "updatedAt", Now)
  \/ \E i \in Insts : PreSave(i, FALSE)
  \/ \E i \in Insts : SaveWrite(i, FALSE)
  \/ \E i \in Insts : PreRemove(i, FALSE)
  \/ \E i \in Insts : RemoveWrite(i)
  \/ \E i \in Insts : ReturnInst(i)
  \/ \E i \in Insts : Release(i)

QuerySteps ==
  \/ \E q \in Queries, op \in UpdateOps, cond \in Conditions, upd \in Updates,
        opts \in QueryOptions :
          Called(op, cond, upd) /\ PreUpdate(q, op, cond, upd, opts, FALSE)
  \/ \E q \in Queries : ExecUpdate(q)
  \/ \E q \in Queries : PostUpdate(q, FALSE, 0)
  \/ \E q \in Queries, cond \in Conditions : PreFindOneAndRemove(q, cond, FALSE)
  \/ \E q \in Queries : ExecFindOneAndRemove(q)
  \/ \E q \in Queries : ReturnQuery(q)

Next == DocumentSteps \/ QuerySteps

Spec == Init /\ [][Next]_vars

\* The plugin with included fields (README: `user` read from `_user`, which
\* a virtual sets on the instance, and `title` read from the path of the
\* same name), with and without trackOriginalValue.  The caller sets _user
\* on its instances and passes _user in the options of its queries.
OptionsIncluding ==
  {[removePatches |-> TRUE, trackOriginalValue |-> track,
    includes |-> [name \in {"user", "title"} |->
                    IF name = "user" THEN "_user" ELSE Undefined],
    timestamps |-> FALSE, defaults |-> EmptyObj] : track \in BOOLEAN}

InitIncluding ==
  /\ setup = Plugged
  /\ schema = plugin(Plugged.before, Plugged.opts).schema
  /\ options \in OptionsIncluding
  /\ \E t \in {EmptyObj, One("id1", "A")} :
       /\ nextId = Cardinality(DOMAIN t) + 1
       /\ store = [id \in DOMAIN t |-> NewDocument(id, One("title", t[id]))]
  /\ patches = << >>
  /\ inst = [i \in Insts |-> NoInst]
  /\ query = [q \in Queries |-> NoQuery]

UserValues == {"", "u1"}

QueryOptionsIncluding ==
  [options : {EmptyObj, One("_user", "u2")}, upsert : BOOLEAN, multi : {FALSE}]

NextIncluding ==
  \/ \E i \in Insts, fields \in NewFields : New(i, fields)
  \/ \E i \in Insts, id \in DOMAIN store : Load(i, id)
  \/ \E i \in Insts, v \in FieldValues["title"] : Set(i, "title", v)
  \/ \E i \in Insts, v \in UserValues : Set(i, "_user", v)
  \/ \E i \in Insts : PreSave(i, FALSE)
  \/ \E i \in Insts : SaveWrite(i, FALSE)
  \/ \E i \in Insts : ReturnInst(i)
  \/ \E i \in Insts : Release(i)
  \/ \E q \in Queries, op \in {"updateOne", "updateMany"},
        opts \in QueryOptionsIncluding :
          PreUpdate(q, op, One("title", "A"), Operator("$set", One("title", "B")),
                    opts, FALSE)
  \/ \E q \in Queries : ExecUpdate(q)
  \/ \E q \in Queries : PostUpdate(q, FALSE, 0)
  \/ \E q \in Queries : ReturnQuery(q)

SpecIncluding == InitIncluding /\ [][NextIncluding]_vars

\* The plugin applied to any host schema with any options.
InitSetup ==
  /\ schema \in HostSchemas
  /\ \E opts \in Opts :
       setup = [pc |-> "call", opts |-> opts, before |-> schema,
                error |-> Undefined]
  /\ options \in Options
  /\ store = << >>
  /\ nextId = 1
  /\ patches = << >>
  /\ inst = [i \in Insts |-> NoInst]
  /\ query = [q \in Queries |-> NoQuery]

NextSetup == Plugin

SpecSetup == InitSetup /\ [][NextSetup]_vars

\* The update pathways of a query while other clients write to the same
\* collection, and with a `sort` option on findOneAndUpdate.
QueryOptionsSorted ==
  [options : {EmptyObj, One("sort", "-_id")}, upsert : BOOLEAN,
   multi : {FALSE}]

NextConcurrent ==
  \/ \E q \in Queries, op \in UpdateOps \ {"update"}, cond \in Conditions,
        upd \in {Operator("$set", One("title", "B")),
                 Operator("$set", One("active", "yes"))},
        opts \in QueryOptionsSorted :
          /\ "sort" \in DOMAIN opts.options => op = "findOneAndUpdate"
          /\ PreUpdate(q, op, cond, upd, opts, FALSE)
  \/ \E q \in Queries : ExecUpdate(q)
  \/ \E q \in Queries : PostUpdate(q, FALSE, 0)
  \/ \E q \in Queries : ReturnQuery(q)
  \/ \E title \in FieldValues["title"] : OtherInsert(One("title", title))
  \/ \E id \in DOMAIN store : OtherRemove(id)

SpecConcurrent == Init /\ [][NextConcurrent]_vars

\* The update pathways of a query while operations on other documents write
\* between its store write and its post hook.
NextInterleaved ==
  \/ QuerySteps
  \/ \E id \in DOMAIN store :
       OtherUpdate(id, Operator("$set", One("active", "yes")))

SpecInterleaved == Init /\ [][NextInterleaved]_vars

\* The plugin attached to an empty collection: every document the collection
\* comes to hold was created by a save or by an upsert.
InitEmpty ==
  /\ setup = Plugged
  /\ schema = plugin(Plugged.before, Plugged.opts).schema
  /\ options \in Options
  /\ store = << >>
  /\ nextId = 1
  /\ patches = << >>
  /\ inst = [i \in Insts |-> NoInst]
  /\ query = [q \in Queries |-> NoQuery]

NextEmpty == Next

SpecEmpty == InitEmpty /\ [][NextEmpty]_vars

\* The same pathways when the store or the patch collection may reject a
\* call of a hook or the write of a save: every promise a hook chains on
\* can reject.
FailingDocumentSteps ==
  \/ \E i \in Insts : PreSave(i, TRUE)
  \/ \E i \in Insts : SaveWrite(i, TRUE)
  \/ \E i \in Insts : PreRemove(i, TRUE)

FailingQuerySteps ==
  \/ \E q \in Queries, op \in UpdateOps, cond \in Conditions, upd \in Updates,
        opts \in QueryOptions :
          Called(op, cond, upd) /\ PreUpdate(q, op, cond, upd, opts, TRUE)
  \/ \E q \in Queries : PostUpdate(q, TRUE, 0)
  \/ \E q \in Queries, n \in 1..Len(IdName) : PostUpdate(q, FALSE, n)
  \/ \E q \in Queries, cond \in Conditions : PreFindOneAndRemove(q, cond, TRUE)

NextFail == Next \/ FailingDocumentSteps \/ FailingQuerySteps

SpecFail == Init /\ [][NextFail]_vars

\* ------------------------------------------------------------- properties

\* The snapshot of a document as the plugin is meant to take it: its
\* application paths that hold a value.
AppSnapshot(doc) ==
  [k \in {x \in (DOMAIN doc) \cap AppFields : doc[x] # Undefined} |-> doc[k]]

\* The diff a createPatch call is meant to compute from what it was handed.
CallDiff(c) ==
  compare(IF c.isNew THEN EmptyObj ELSE c.baseline, AppSnapshot(c.doc))

\* The records the patch collection gained since an operation started.
Gained(op) ==
  IF Len(patches) >= Len(op.patches0)
    THEN SubSeq(patches, Len(op.patches0) + 1, Len(patches))
    ELSE << >>

\* The records the createPatch calls of an operation are meant to store.
Due(calls) ==
  LET kept == SelectSeq(calls, LAMBDA c : CallDiff(c) # << >>)
  IN  [n \in 1..Len(kept) |->
         [ops |-> CallDiff(kept[n]), ref |-> kept[n].doc["_id"], inc |-> EmptyObj]]

\* The records of the patch collection that refer to a document.
PatchesOf(id) == SelectSeq(patches, LAMBDA p : p.ref = id)

\* An add for every field of a snapshot, in key order.
AddsOf(snap) ==
  [n \in 1..Len(KeysOf(snap)) |->
     [op |-> "add", path |-> "/" \o KeysOf(snap)[n], value |-> snap[KeysOf(snap)[n]]]]

\* The operations that made createPatch calls and have not yet returned.
Saving(i) == inst[i].pc \in {"save", "done"} /\ ~inst[i].removed
Updated(q) == query[q].pc = "done" /\ query[q].op # "findOneAndRemove"

\* C1: a patch record is stored by a createPatch call exactly when the diff
\* from the call's baseline to the document's snapshot is non-empty: every
\* call stored a record iff its diff has an operation, the records an
\* operation added are those of its non-empty diffs, and no stored record
\* has an empty operation list.
C1_PatchIffNonEmptyDiff ==
  /\ \A n \in 1..Len(patches) : Len(patches[n].ops) > 0
  /\ \A i \in Insts : Saving(i) =>
       /\ \A n \in 1..Len(inst[i].calls) :
            inst[i].calls[n].persisted <=> CallDiff(inst[i].calls[n]) # << >>
       /\ Gained(inst[i]) = Due(inst[i].calls)
  /\ \A q \in Queries : Updated(q) =>
       /\ \A n \in 1..Len(query[q].calls) :
            query[q].calls[n].persisted <=> CallDiff(query[q].calls[n]) # << >>
       /\ Gained(query[q]) = Due(query[q].calls)

\* An update of several documents has returned; one of its createPatch
\* calls stored a record and another, whose diff was empty, stored none.
C1_Witness ==
  \E q \in Queries :
    /\ Updated(q)
    /\ \E a, b \in 1..Len(query[q].calls) :
         /\ query[q].calls[a].persisted
         /\ ~query[q].calls[b].persisted
         /\ CallDiff(query[q].calls[b]) = << >>

\* The save of a new document has succeeded.
Created(i) ==
  /\ inst[i].pc = "done" /\ inst[i].outcome = "ok" /\ ~inst[i].removed
  /\ Len(inst[i].calls) = 1 /\ inst[i].calls[1].isNew

\* C2 as stated: the save of a new document leaves exactly one patch record
\* for it, whose ops are an add for every field of the new document's
\* snapshot (the diff from {}).
C2_CreateYieldsOnePatch ==
  \A i \in Insts : Created(i) =>
    LET id == inst[i].doc["_id"]
    IN  /\ Len(PatchesOf(id)) = 1
        /\ PatchesOf(id)[1].ops = AddsOf(AppSnapshot(inst[i].doc))

\* C2: the save of a new document whose snapshot has a field leaves exactly
\* one patch record for it, whose ops are an add for every field of the
\* snapshot; the save of a new document whose snapshot is empty leaves none.
C2_CreateYieldsOnePatchUnlessEmpty ==
  \A i \in Insts : Created(i) =>
    LET id   == inst[i].doc["_id"]
        snap == AppSnapshot(inst[i].doc)
    IN  IF snap = EmptyObj
          THEN PatchesOf(id) = << >>
          ELSE /\ Len(PatchesOf(id)) = 1
               /\ PatchesOf(id)[1].ops = AddsOf(snap)
               /\ PatchesOf(id)[1].ops = compare(EmptyObj, snap)

\* A new document with a title and a defaulted path has been saved.
C2_Witness ==
  \E i \in Insts :
    /\ Created(i)
    /\ DOMAIN AppSnapshot(inst[i].doc) = AppFields
    /\ Len(PatchesOf(inst[i].doc["_id"])) = 1

\* C3: after a load and after a successful save the instance's baseline is
\* the snapshot of its data, whether or not the save stored a record; so
\* the record of a save holds the diff from the document's state at its
\* previous save or load to its state at this save, and is stored iff that
\* diff is non-empty.
C3_BaselineFollowsSaves ==
  \A i \in Insts :
    /\ ( /\ inst[i].pc \in {"idle", "done"}
         /\ ~inst[i].isNew /\ ~inst[i].removed /\ inst[i].outcome # "error"
         /\ inst[i].doc = inst[i].clean )
       => /\ inst[i].hasOriginal
          /\ inst[i]._original = AppSnapshot(inst[i].doc)
    /\ inst[i].pc = "save" =>
         LET diff == compare(AppSnapshot(inst[i].clean), AppSnapshot(inst[i].doc))
         IN  /\ inst[i].calls[1].persisted <=> diff # << >>
             /\ Gained(inst[i]) =
                  IF diff = << >> THEN << >>
                  ELSE << [ops |-> diff, ref |-> inst[i].doc["_id"], inc |-> EmptyObj] >>

\* A document that already has a patch record is saved again with a change:
\* the second record is being stored.
C3_Witness ==
  \E i \in Insts :
    /\ inst[i].pc = "save" /\ ~inst[i].isNew
    /\ inst[i].calls[1].persisted
    /\ Len(PatchesOf(inst[i].doc["_id"])) = 2
    /\ inst[i]._original = AppSnapshot(inst[i].clean)

\* C4: the save of an existing document whose application fields are as
\* they were at its last load or save stores no patch record, also when its
\* timestamps differ, and however often it is repeated.
C4_NoOpSaveStoresNothing ==
  \A i \in Insts :
    ( /\ inst[i].pc = "save" /\ ~inst[i].isNew
      /\ AppSnapshot(inst[i].doc) = AppSnapshot(inst[i].clean) )
    => /\ ~inst[i].calls[1].persisted
       /\ patches = inst[i].patches0

\* An existing document is saved with a new updatedAt and nothing else
\* changed.
C4_Witness ==
  \E i \in Insts :
    /\ inst[i].pc = "save" /\ ~inst[i].isNew
    /\ AppSnapshot(inst[i].doc) = AppSnapshot(inst[i].clean)
    /\ Prop(inst[i].doc, "updatedAt") # Prop(inst[i].clean, "updatedAt")
    /\ patches = inst[i].patches0

\* An update of several documents has succeeded.
ManyDone(q) ==
  /\ Updated(q) /\ IsMany(query[q]) /\ query[q].outcome = "ok"

\* The documents the filter of a query matched when it started, and those
\* of them whose snapshot the update changed.
Matched(q) ==
  {id \in DOMAIN query[q].before :
     Matches(query[q].before[id], query[q]._conditions)}

ModifiedBy(q) ==
  {id \in Matched(q) :
     AppSnapshot(query[q].before[id]) # AppSnapshot(store[id])}

\* One record per modified document, each holding that document's diff.
OnePatchPerModified(q) ==
  LET gained == Gained(query[q])
  IN  /\ Len(gained) = Cardinality(ModifiedBy(q))
      /\ {gained[n].ref : n \in 1..Len(gained)} = ModifiedBy(q)
      /\ \A n \in 1..Len(gained) :
           gained[n].ops = compare(AppSnapshot(query[q].before[gained[n].ref]),
                                   AppSnapshot(store[gained[n].ref]))

\* C5 as stated: an update-many whose filter matched N documents and which
\* modified M of them stores exactly M patch records, one per modified
\* document, each with that document's id as ref.
C5_UpdateManyOnePatchPerModified ==
  \A q \in Queries : ManyDone(q) => OnePatchPerModified(q)

\* C5: an update-many that upserts no document and whose filter matched N
\* documents, M of which it modified, stores exactly M patch records, one
\* per modified document, each with that document's id as ref and that
\* document's diff as ops.
C5_UpdateManyOnePatchPerModifiedUnlessUpsert ==
  \A q \in Queries :
    ManyDone(q) /\ ~query[q].result.upserted => OnePatchPerModified(q)

\* An update-many matched two documents and modified one of them.
C5_Witness ==
  \E q \in Queries :
    /\ ManyDone(q) /\ ~query[q].result.upserted
    /\ Cardinality(Matched(q)) = 2
    /\ Cardinality(ModifiedBy(q)) = 1
    /\ Len(Gained(query[q])) = 1

\* What a removal is meant to leave of the records referring to the removed
\* document, given the patch collection it started from.
Cascaded(id, before) ==
  IF options.removePatches
    THEN PatchesOf(id) = << >>
    ELSE /\ patches = before
         /\ PatchesOf(id) = SelectSeq(before, LAMBDA p : p.ref = id)

SnapshotBefore(q, id) ==
  IF id \in DOMAIN query[q].before
    THEN AppSnapshot(query[q].before[id]) ELSE EmptyObj

\* The documents whose snapshot an update changed, inserted ones included.
ChangedBy(q) ==
  {id \in DOMAIN store : SnapshotBefore(q, id) # AppSnapshot(store[id])}

\* C7 as stated: no mutation reports success while the patch record of its
\* non-empty change was not stored: a save that does not fail has stored
\* the record of every non-empty diff, and an update that reports success
\* has stored a record for every document whose snapshot it changed.
C7_NoSuccessWithoutPatch ==
  /\ \A i \in Insts :
       Saving(i) /\ inst[i].outcome # "error" =>
         \A n \in 1..Len(inst[i].calls) :
           CallDiff(inst[i].calls[n]) # << >> => inst[i].calls[n].persisted
  /\ \A q \in Queries :
       Updated(q) /\ query[q].outcome = "ok" =>
         \A id \in ChangedBy(q) :
           \E n \in 1..Len(Gained(query[q])) : Gained(query[q])[n].ref = id

\* The record a direct save of a new document with this snapshot stores.
CreateRecord(id, snap) ==
  IF snap = EmptyObj THEN << >>
  ELSE << [ops |-> AddsOf(snap), ref |-> id, inc |-> EmptyObj] >>

\* C8 as stated: when the filter of a single-target update matched nothing
\* in the pre hook, the baseline of the diff is {}, and if the update
\* upserts a document the record stored for it is the one a direct save of
\* the same new document stores.
C8_UpsertPatchEqualsCreate ==
  \A q \in Queries :
    ( /\ Updated(q) /\ ~IsMany(query[q]) /\ query[q].outcome = "ok"
      /\ ~query[q].hasOriginalId )
    => /\ query[q]._original = EmptyObj
       /\ query[q].result.upserted =>
            \E id \in query[q].target :
              Gained(query[q]) = CreateRecord(id, AppSnapshot(store[id]))

\* C9 as stated: an update on any update pathway that modified no document
\* and upserted none stores no patch record and leaves the patch
\* collection as it was, whatever else the collection of documents holds.
C9_NoOpUpdateStoresNothing ==
  \A q \in Queries :
    ( /\ Updated(q)
      /\ query[q].result.nModified = 0 /\ ~query[q].result.upserted )
    => patches = query[q].patches0

\* Object.assign({}, _conditions, update) without the operator keys: the
\* filter's conditions with the update's $set (or top-level) fields laid
\* over them.
mergeKeepingConditions(_conditions, _update) ==
  LET update == IF "$set" \in DOMAIN _update THEN _update["$set"] ELSE _update
  IN  Without(Assign(_conditions, update), OperatorKeys)

\* C10 as stated: when the pre hook recorded no identity and the post hook
\* queries again, its filter is the original conditions overlaid with the
\* update's fields, operator keys removed, so every condition the update
\* does not override is still in it.
C10_MergedFilterKeepsConditions ==
  \A q \in Queries :
    query[q].pc = "done" /\ query[q].merged =>
      /\ query[q].conditions =
           mergeKeepingConditions(query[q]._conditions, query[q]._update)
      /\ \A k \in (DOMAIN query[q]._conditions) \ (DOMAIN Sets(query[q]._update)) :
           /\ k \in DOMAIN query[q].conditions
           /\ query[q].conditions[k] = query[q]._conditions[k]

\* The createPatch calls of an operation that stored a record, in order:
\* the n-th of them stored the n-th record the operation gained.
Persisted(calls) == SelectSeq(calls, LAMBDA c : c.persisted)

\* The included values a record is meant to hold: the document's value of
\* the source field whenever the document has one, whatever it is, and the
\* query option of that name otherwise.
IncludedWhenPresent(doc, queryOptions) ==
  [name \in DOMAIN options.includes |->
     LET src == IF options.includes[name] = Undefined THEN name
                ELSE options.includes[name]
     IN  IF src \in DOMAIN doc /\ doc[src] # Undefined
           THEN doc[src]
           ELSE Prop(queryOptions, src)]

\* C11 as stated: every record holds, for every included field, the value
\* of the document's source field (the `from` field, else the field of the
\* same name) whenever the document has that field, for any value, and the
\* query option only when the document has none.
C11_IncludedFromDocument ==
  /\ \A i \in Insts : Saving(i) =>
       \A n \in 1..Len(Gained(inst[i])) :
         Gained(inst[i])[n].inc =
           IncludedWhenPresent(Persisted(inst[i].calls)[n].doc, EmptyObj)
  /\ \A q \in Queries : Updated(q) =>
       \A n \in 1..Len(Gained(query[q])) :
         Gained(query[q])[n].inc =
           IncludedWhenPresent(Persisted(query[q].calls)[n].doc, query[q].options)

\* The field a one-segment JSON pointer addresses.
PathField(path) == CHOOSE k \in AppFields : "/" \o k = path

\* The operations of a record carry the values the call's before snapshot
\* held at their paths when originals are tracked, and none otherwise.
OriginalsOf(c, record) ==
  \A k \in 1..Len(record.ops) :
    IF options.trackOriginalValue
      THEN Prop(record.ops[k], "originalValue") =
             Prop(IF c.isNew THEN EmptyObj ELSE c.baseline,
                  PathField(record.ops[k].path))
      ELSE "originalValue" \notin DOMAIN record.ops[k]

\* C12: with trackOriginalValue every operation of every stored record
\* carries as originalValue the value at its path in the before snapshot
\* the diff was computed from (none for a path that did not exist before
\* and for a new document); without it no operation has an originalValue.
C12_OriginalValueFromBaseline ==
  /\ \A i \in Insts : Saving(i) =>
       \A n \in 1..Len(Gained(inst[i])) :
         OriginalsOf(Persisted(inst[i].calls)[n], Gained(inst[i])[n])
  /\ \A q \in Queries : Updated(q) =>
       \A n \in 1..Len(Gained(query[q])) :
         OriginalsOf(Persisted(query[q].calls)[n], Gained(query[q])[n])

\* With tracking, a title was updated from "A" to "B": the record holds a
\* replace of /title annotated with "A".
C12_Witness ==
  \E q \in Queries :
    /\ Updated(q) /\ options.trackOriginalValue
    /\ Len(Gained(query[q])) = 1
    /\ Gained(query[q])[1].ops =
         << [op |-> "replace", path |-> "/title", value |-> "B",
             originalValue |-> "A"] >>

\* C13 as stated: when plugin(schema, opts) throws, the host schema carries
\* nothing it did not carry before the call: no `data` method, no `Patches`
\* static, no `patches` virtual and no hook.
C13_SetupErrorAttachesNothing ==
  (setup.pc = "done" /\ setup.error # Undefined) => schema = setup.before

\* The documents the createPatch calls of a query were handed.
Considered(q) ==
  {query[q].calls[n].doc["_id"] : n \in 1..Len(query[q].calls)}

\* The documents considered are the pre-phase matches the collection still
\* holds, each once and as the collection holds it, and every record gained
\* refers to one of them.
ConsidersPreMatched(q) ==
  /\ Len(query[q].calls) = Cardinality(Considered(q))
  /\ Considered(q) =
       IF query[q].requeried THEN Matched(q) \cap DOMAIN store ELSE {}
  /\ \A n \in 1..Len(query[q].calls) :
       query[q].calls[n].doc = store[query[q].calls[n].doc["_id"]]
  /\ \A n \in 1..Len(Gained(query[q])) :
       Gained(query[q])[n].ref \in Matched(q)

\* C14 as stated: the documents an update-many considers for patches are
\* those its filter matched in the pre-phase, found again by _id: none that
\* matches the filter only afterwards, and all that matched before, also
\* those that no longer match.
C14_ManyConsidersPreMatched ==
  \A q \in Queries : ManyDone(q) => ConsidersPreMatched(q)

\* C14: the documents an update-many whose filter matched at least one
\* document in the pre-phase considers for patches are those pre-phase
\* matches, found again by _id: none that matches the filter only afterwards,
\* and all that matched before and still exist, also those that no longer
\* match.
C14_ManyConsidersPreMatchedIfAny ==
  \A q \in Queries :
    ManyDone(q) /\ Matched(q) # {} => ConsidersPreMatched(q)

\* An update-many changed the one document its filter matched so that it no
\* longer matches, and was handed that document; another document, inserted
\* meanwhile, matches the filter now and was not considered.
C14_Witness ==
  \E q \in Queries :
    /\ ManyDone(q) /\ query[q].requeried
    /\ \E id \in Matched(q) :
         /\ id \in DOMAIN store
         /\ ~Matches(store[id], query[q]._conditions)
         /\ id \in Considered(q)
         /\ \E n \in 1..Len(Gained(query[q])) : Gained(query[q])[n].ref = id
    /\ \E id \in DOMAIN store \ Matched(q) :
         /\ Matches(store[id], query[q]._conditions)
         /\ query[q]._conditions # EmptyObj
         /\ id \notin Considered(q)

\* C15 as stated: a save that ended with an error, whether pre('save') or
\* the store's write failed, leaves the patch collection as it was when the
\* save started: no record of the change that was not written remains.
C15_FailedSaveLeavesNoPatch ==
  \A i \in Insts :
    ( /\ inst[i].pc = "done" /\ inst[i].outcome = "error"
      /\ inst[i].calls # << >> )
    => patches = inst[i].patches0

\* C16 as stated: every document the post-phase of an update-many found
\* again is diffed against the snapshot the pre-phase took of the document
\* with the same _id, also when documents matched in the pre-phase are gone
\* by the time of the post-phase.
C16_ManyBaselineBySameId ==
  \A q \in Queries :
    Updated(q) /\ IsMany(query[q]) =>
      \A n \in 1..Len(query[q].calls) :
        LET c == query[q].calls[n]
        IN  c.doc["_id"] \in Matched(q) =>
              c.baseline = AppSnapshot(query[q].before[c.doc["_id"]])

\* The document a single-target update changed, if any.
ChangedByStore(q) ==
  {id \in DOMAIN query[q].before \cap DOMAIN store :
     query[q].before[id] # store[id]}

\* C17 as stated: an updateOne or findOneAndUpdate that modified a document
\* the collection held stores exactly one patch record, whose ref is the _id
\* of the document the store modified and whose operations are the diff from
\* that document's snapshot before the update, also when the filter matches
\* several documents and the `sort` option picks the target.
C17_SingleUpdatePatchesItsTarget ==
  \A q \in Queries :
    ( /\ Updated(q) /\ ~IsMany(query[q]) /\ query[q].outcome = "ok"
      /\ query[q].target # {} /\ ~query[q].result.upserted
      /\ query[q].target = ChangedByStore(q) )
    => \A id \in query[q].target :
         AppSnapshot(query[q].before[id]) # AppSnapshot(store[id]) =>
           /\ Len(Gained(query[q])) = 1
           /\ Gained(query[q])[1].ref = id
           /\ Gained(query[q])[1].ops =
                compare(AppSnapshot(query[q].before[id]), AppSnapshot(store[id]))

\* Every record of the patch collection is one of those it held before.
NoneCreated(before) ==
  \E S \in SUBSET (1..Len(before)) : patches = DropAt(before, S)

\* The pre hook of a query failed: the store never reported a result.
PreFailed(q) == query[q].outcome = "error" /\ ~query[q].result.hasN

\* C18: an operation that got an error from a hook is over and its caller
\* has the error.  When the pre hook of an update or of a removal failed,
\* the collection is as it was and the patch collection has no new record;
\* when the post hook's read of the documents failed, the patch collection
\* is as it was.
C18_FailureStopsPipeline ==
  /\ \A q \in Queries :
       query[q].outcome = "error" =>
         /\ query[q].pc = "done"
         /\ PreFailed(q) =>
              /\ store = query[q].before
              /\ IF query[q].op = "findOneAndRemove"
                   THEN NoneCreated(query[q].patches0)
                   ELSE patches = query[q].patches0
         /\ query[q].requeried /\ query[q].calls = << >> =>
              patches = query[q].patches0
  /\ \A i \in Insts :
       inst[i].outcome = "error" =>
         /\ inst[i].pc = "done"
         /\ inst[i].calls = << >> =>
              /\ ~inst[i].removed
              /\ inst[i].doc["_id"] \in DOMAIN store
              /\ NoneCreated(inst[i].patches0)
         /\ inst[i].calls # << >> /\ ~inst[i].calls[1].persisted =>
              /\ patches = inst[i].patches0
              /\ inst[i].isNew => inst[i].doc["_id"] \notin DOMAIN store

\* The pre hook's read failed for an update whose filter matches a document
\* the update would have changed.
C18_Witness ==
  \E q \in Queries :
    /\ PreFailed(q) /\ query[q].op \in UpdateOps
    /\ \E id \in DOMAIN store :
         /\ Matches(store[id], query[q]._conditions)
         /\ ApplyUpdate(store[id], query[q]._update) # store[id]

\* A step keeps every record and may add records at the end.
KeepsRecords ==
  /\ Len(patches') >= Len(patches)
  /\ SubSeq(patches', 1, Len(patches)) = patches

\* A step is the cascade of the removal of document `id`, through an
\* instance or through findOneAndRemove: the records that refer to `id` are
\* gone and the others are kept as they were, in their order.
CascadeOf(id) ==
  /\ options.removePatches
  /\ \/ \E i \in Insts :
          /\ inst[i].pc = "idle" /\ inst'[i].pc = "remove"
          /\ inst[i].doc["_id"] = id
     \/ \E q \in Queries :
          /\ query[q].pc = "idle" /\ query'[q].pc = "exec"
          /\ query'[q].op = "findOneAndRemove"
          /\ Find(query'[q]._conditions) # << >>
          /\ Find(query'[q]._conditions)[1] = id
  /\ patches' = SelectSeq(patches, LAMBDA p : p.ref # id)

C20_PostHookCallsNextOnce ==
  \A q \in Queries :
    Updated(q) /\ ~PreFailed(q) => query[q].nextCalls = 1

\* C21 as stated: with removePatches, a findOneAndRemove whose filter matches
\* no document ends without an error and leaves the patch collection and the
\* collection as they were.
C21_RemoveOfNoMatchSucceeds ==
  \A q \in Queries :
    ( /\ query[q].pc = "done" /\ query[q].op = "findOneAndRemove"
      /\ options.removePatches
      /\ \A id \in DOMAIN query[q].before :
           ~Matches(query[q].before[id], query[q]._conditions) )
    => /\ query[q].outcome = "ok"
       /\ patches = query[q].patches0
       /\ store = query[q].before

\* One operation of a record applied to an object, as fast-json-patch
\* applies it without validation: add and replace set the path, remove
\* deletes it.
ApplyOp(obj, op) ==
  IF op.op = "remove" THEN Without(obj, {PathField(op.path)})
  ELSE Put(obj, PathField(op.path), op.value)

RECURSIVE ApplyOps(_, _)
ApplyOps(obj, ops) ==
  IF ops = << >> THEN obj
  ELSE ApplyOps(ApplyOp(obj, ops[1]), SubSeq(ops, 2, Len(ops)))

RECURSIVE Replay(_, _)
\* The records of a document applied in creation order.
Replay(obj, records) ==
  IF records = << >> THEN obj
  ELSE Replay(ApplyOps(obj, records[1].ops), SubSeq(records, 2, Len(records)))

\* C22 as stated: whenever no operation is under way, the records of every
\* document of the collection, applied in creation order to the empty
\* object, give the document's current snapshot.
C22_ReplayYieldsSnapshot ==
  Quiet =>
    \A id \in DOMAIN store :
      Replay(EmptyObj, PatchesOf(id)) = AppSnapshot(store[id])

\* The collection as it would be when query q is done had no operation on
\* another document written meanwhile: q's own documents as they are, the
\* others as they were when q started.
Alone(q) ==
  [id \in DOMAIN store |->
     IF id \in Own(query[q]) \/ id \notin DOMAIN query[q].before
       THEN store[id] ELSE query[q].before[id]]

\* The records postUpdateOne of q stores when it reads from Alone(q).
AloneRecords(q) ==
  LET this  == query[q]
      found == SelectSeq(IdName, LAMBDA id :
                 /\ id \in DOMAIN store
                 /\ Matches(Alone(q)[id], PostConditionsOne(this)))
      cp    == createPatch([doc |-> Alone(q)[found[1]], isNew |-> FALSE,
                            hasOriginal |-> TRUE, _original |-> this._original],
                           this.options)
  IN  IF ~this.requeried \/ found = << >> \/ ~cp.create THEN << >>
      ELSE << cp.data >>

\* C23 as stated, for single-target updates: the records an update stores
\* (refs, baselines, ops) are those it stores when the operations on other
\* documents that wrote between its store write and its post hook had not
\* run.
C23_OthersLeaveTrailAlone ==
  \A q \in Queries :
    Updated(q) /\ ~IsMany(query[q]) /\ query[q].outcome = "ok"
      => Gained(query[q]) = AloneRecords(q)

====
